---- MODULE Spec2Model ----
(***************************************************************************)
(* A model of the goini INI parser (package goini): the RawConfigParser    *)
(* state machine (Parse / ParseFile / Finish), its line handling           *)
(* (parseLine, parseSectionHeader, parseProperty, addSection) and the      *)
(* RawConfig / RawSection accessors.                                       *)
(*                                                                         *)
(* Strings are sequences of one-character strings, so that indexing,       *)
(* strings.TrimSpace and strings.SplitN are computed rather than assumed.  *)
(***************************************************************************)
EXTENDS Integers, Sequences, FiniteSets, TLC

(***************************************************************************)
(* Bounds of the exploration.                                              *)
(***************************************************************************)
\* physical lines scanned in one behaviour
MaxLines == 3
\* Finish calls in one behaviour
MaxPasses == 1

(***************************************************************************)
(* Strings.                                                                *)
(***************************************************************************)
WhiteSpace == {" ", "\t"}

CommentChars == {";", "#"}

RECURSIVE TrimLeft(_)
TrimLeft(s) ==
    IF s # <<>> /\ Head(s) \in WhiteSpace THEN TrimLeft(Tail(s)) ELSE s

RECURSIVE TrimRight(_)
TrimRight(s) ==
    IF s # <<>> /\ s[Len(s)] \in WhiteSpace
    THEN TrimRight(SubSeq(s, 1, Len(s) - 1))
    ELSE s

\* strings.TrimSpace
TrimSpace(s) == TrimRight(TrimLeft(s))

\* strings.Index for a one-character separator, 1-based; 0 when absent
Index(s, c) ==
    IF \E i \in 1..Len(s) : s[i] = c
    THEN CHOOSE i \in 1..Len(s) : s[i] = c /\ \A j \in 1..(i - 1) : s[j] # c
    ELSE 0

\* strings.SplitN(s, c, 2)
SplitN2(s, c) ==
    IF Index(s, c) = 0
    THEN <<s>>
    ELSE <<SubSeq(s, 1, Index(s, c) - 1), SubSeq(s, Index(s, c) + 1, Len(s))>>

(***************************************************************************)
(* Errors.  The nil error is a record too, so that all errors compare.     *)
(***************************************************************************)
Nil == [kind |-> "nil", line |-> 0, name |-> <<>>]

\* fmt.Errorf("... on line %d", cp.numLines); name is the section name that the
\* duplicate-section message quotes, empty in every other message
Errorf(kind, n) == [kind |-> kind, line |-> n, name |-> <<>>]

(***************************************************************************)
(* RawSection: map[string][]string.                                        *)
(***************************************************************************)
EmptySection == [p \in {} |-> <<>>]

\* RawSection.GetPropertyValues: the nil list when the property is not set
GetPropertyValues(s, property) ==
    IF property \in DOMAIN s THEN s[property] ELSE <<>>

\* addProperty putting the new value in front of the recorded ones
addPropertyPrepend(s, property, value) ==
    [p \in DOMAIN s \cup {property} |->
        IF p = property THEN <<value>> \o GetPropertyValues(s, property)
        ELSE s[p]]

\* RawSection.addProperty
addProperty(s, property, value) ==
    [p \in DOMAIN s \cup {property} |->
        IF p = property THEN Append(GetPropertyValues(s, property), value)
        ELSE s[p]]

\* RawSection.Properties, as a set: the order of a map range is unspecified
Properties(s) == DOMAIN s

(***************************************************************************)
(* RawConfig.                                                              *)
(***************************************************************************)
NilConfig == [isNil |-> TRUE]

NewRawConfig ==
    [GlobalSection |-> EmptySection,
     sections      |-> [n \in {} |-> EmptySection],
     sectionNames  |-> <<>>]

\* RawConfig.Sections
Sections(c) == c.sectionNames

\* RawConfig.Section: present or nil
HasSection(c, n) == n \in DOMAIN c.sections

(***************************************************************************)
(* The RawConfig that the last successful Finish handed to the caller,     *)
(* NilConfig before.  It is declared here because parseProperty writes     *)
(* through a reference that may point into it.                             *)
(***************************************************************************)
VARIABLE returned

(***************************************************************************)
(* RawConfigParser.  currentSection is a reference to a map owned by a     *)
(* RawConfig: its global section, or the section registered under a name.  *)
(* Two RawConfig objects can be alive: the one cp.config points to (doc    *)
(* "config") and the one the last successful Finish handed to the caller   *)
(* (doc "returned").                                                       *)
(***************************************************************************)
GlobalRef == [global |-> TRUE, name |-> <<>>, doc |-> "config"]

SectionRef(n) == [global |-> FALSE, name |-> n, doc |-> "config"]

NewRawConfigParser ==
    [config         |-> NewRawConfig,
     currentSection |-> GlobalRef,
     currentLine    |-> <<>>,
     err            |-> Nil,
     numLines       |-> 0]

\* cp.currentSection.addProperty(p, v): writes through the reference; c is
\* the object the reference points into
addToCurrent(c, ref, p, v) ==
    IF ref.global
    THEN [c EXCEPT !.GlobalSection = addProperty(@, p, v)]
    ELSE [c EXCEPT !.sections[ref.name] = addProperty(@, p, v)]

\* addSection without the lookup of the name: a repeated header starts the
\* section afresh
addSectionNoLookup(cp, name) ==
    [cp |-> [cp EXCEPT
                !.currentSection = SectionRef(name),
                !.config.sections =
                    [n \in DOMAIN cp.config.sections \cup {name} |->
                        IF n = name THEN EmptySection
                        ELSE cp.config.sections[n]],
                !.config.sectionNames = Append(@, name)],
     err |-> Nil]

\* addSection putting the new name in front of the earlier ones
addSectionPrepend(cp, name) ==
    IF name \in DOMAIN cp.config.sections
    THEN LET e == [Errorf("DuplicateSection", cp.numLines) EXCEPT !.name = name]
         IN  [cp |-> [cp EXCEPT !.err = e], err |-> e]
    ELSE [cp |-> [cp EXCEPT
                    !.currentSection = SectionRef(name),
                    !.config.sections =
                        [n \in DOMAIN cp.config.sections \cup {name} |->
                            IF n = name THEN EmptySection
                            ELSE cp.config.sections[n]],
                    !.config.sectionNames = <<name>> \o @],
          err |-> Nil]

\* addSection making the section of a duplicate header current before
\* rejecting the header
addSectionSwitchesFirst(cp, name) ==
    IF name \in DOMAIN cp.config.sections
    THEN LET e == [Errorf("DuplicateSection", cp.numLines) EXCEPT !.name = name]
         IN  [cp |-> [cp EXCEPT !.err = e, !.currentSection = SectionRef(name)],
              err |-> e]
    ELSE [cp |-> [cp EXCEPT
                    !.currentSection = SectionRef(name),
                    !.config.sections =
                        [n \in DOMAIN cp.config.sections \cup {name} |->
                            IF n = name THEN EmptySection
                            ELSE cp.config.sections[n]],
                    !.config.sectionNames = Append(@, name)],
          err |-> Nil]

\* RawConfigParser.addSection; yields the parser and the returned error
addSection(cp, name) ==
    IF name \in DOMAIN cp.config.sections
    THEN LET e == [Errorf("DuplicateSection", cp.numLines) EXCEPT !.name = name]
         IN  [cp |-> [cp EXCEPT !.err = e], err |-> e]
    ELSE [cp |-> [cp EXCEPT
                    !.currentSection = SectionRef(name),
                    !.config.sections =
                        [n \in DOMAIN cp.config.sections \cup {name} |->
                            IF n = name THEN EmptySection
                            ELSE cp.config.sections[n]],
                    !.config.sectionNames = Append(@, name)],
          err |-> Nil]

\* parseSectionHeader taking whatever follows the first ']' as part of the header
parseSectionHeaderLax(cp, line) ==
    IF line[1] # "["
    THEN LET e == Errorf("InvalidHeaderStart", cp.numLines)
         IN  [cp |-> [cp EXCEPT !.err = e], err |-> e]
    ELSE LET parts == SplitN2(Tail(line), "]")
         IN  IF Len(parts) # 2
             THEN LET e == Errorf("NoHeaderEnd", cp.numLines)
                  IN  [cp |-> [cp EXCEPT !.err = e], err |-> e]
             ELSE addSection(cp, parts[1])

\* RawConfigParser.parseSectionHeader
parseSectionHeader(cp, line) ==
    IF line[1] # "["
    THEN LET e == Errorf("InvalidHeaderStart", cp.numLines)
         IN  [cp |-> [cp EXCEPT !.err = e], err |-> e]
    ELSE LET parts == SplitN2(Tail(line), "]")
         IN  IF Len(parts) # 2
             THEN LET e == Errorf("NoHeaderEnd", cp.numLines)
                  IN  [cp |-> [cp EXCEPT !.err = e], err |-> e]
             ELSE IF parts[2] # <<>>
             THEN LET e == Errorf("TrailingCharacters", cp.numLines)
                  IN  [cp |-> [cp EXCEPT !.err = e], err |-> e]
             ELSE addSection(cp, parts[1])

\* parseProperty storing the two parts as they are split
parsePropertyNoTrim(cp, line) ==
    LET parts == SplitN2(line, "=")
    IN  IF Len(parts) # 2 \/ Len(parts[1]) = 0
        THEN LET e == Errorf("InvalidProperty", cp.numLines)
             IN  [cp |-> [cp EXCEPT !.err = e], err |-> e, returned |-> returned]
        ELSE LET ref == cp.currentSection
             IN  [cp |-> IF ref.doc = "config"
                         THEN [cp EXCEPT !.config =
                                 addToCurrent(@, ref, parts[1], parts[2])]
                         ELSE cp,
                  returned |-> IF ref.doc = "returned" /\ returned # NilConfig
                               THEN addToCurrent(returned, ref, parts[1], parts[2])
                               ELSE returned,
                  err |-> Nil]

\* RawConfigParser.parseProperty
parseProperty(cp, line) ==
    LET parts == SplitN2(line, "=")
    IN  IF Len(parts) # 2 \/ Len(parts[1]) = 0
        THEN LET e == Errorf("InvalidProperty", cp.numLines)
             IN  [cp |-> [cp EXCEPT !.err = e], err |-> e, returned |-> returned]
        ELSE LET p   == TrimSpace(parts[1])
                 v   == TrimSpace(parts[2])
                 ref == cp.currentSection
             IN  [cp |-> IF ref.doc = "config"
                         THEN [cp EXCEPT !.config = addToCurrent(@, ref, p, v)]
                         ELSE cp,
                  returned |-> IF ref.doc = "returned" /\ returned # NilConfig
                               THEN addToCurrent(returned, ref, p, v)
                               ELSE returned,
                  err |-> Nil]

\* parseLine classifying the joined line without trimming it
parseLineNoTrim(cp, line) ==
    IF cp.err # Nil
    THEN [cp |-> cp, err |-> cp.err, returned |-> returned]
    ELSE IF Len(line) > 0 /\ line[1] \in CommentChars
    THEN IF cp.currentLine # <<>>
         THEN LET e == Errorf("ContinuationIntoComment", cp.numLines)
              IN  [cp |-> [cp EXCEPT !.err = e], err |-> e, returned |-> returned]
         ELSE [cp |-> cp, err |-> Nil, returned |-> returned]
    ELSE IF Len(line) > 0 /\ line[Len(line)] = "\\"
    THEN [cp |-> [cp EXCEPT !.currentLine = @ \o SubSeq(line, 1, Len(line) - 1)],
          err |-> Nil, returned |-> returned]
    ELSE LET joined == cp.currentLine \o line
             cp1    == [cp EXCEPT !.currentLine = <<>>]
         IN  IF Len(joined) = 0
             THEN [cp |-> cp1, err |-> Nil, returned |-> returned]
             ELSE LET r == IF joined[1] = "["
                           THEN parseSectionHeader(cp1, joined)
                           ELSE parseProperty(cp1, joined)
                  IN  [cp |-> [r.cp EXCEPT !.err = r.err], err |-> r.err,
                       returned |-> IF joined[1] = "[" THEN returned
                                    ELSE r.returned]

\* parseLine keeping a blank where the continuation marker and the line break were
parseLineSeparator(cp, line) ==
    IF cp.err # Nil
    THEN [cp |-> cp, err |-> cp.err, returned |-> returned]
    ELSE IF Len(line) > 0 /\ line[1] \in CommentChars
    THEN IF cp.currentLine # <<>>
         THEN LET e == Errorf("ContinuationIntoComment", cp.numLines)
              IN  [cp |-> [cp EXCEPT !.err = e], err |-> e, returned |-> returned]
         ELSE [cp |-> cp, err |-> Nil, returned |-> returned]
    ELSE IF Len(line) > 0 /\ line[Len(line)] = "\\"
    THEN [cp |-> [cp EXCEPT !.currentLine =
                    @ \o SubSeq(line, 1, Len(line) - 1) \o <<" ">>],
          err |-> Nil, returned |-> returned]
    ELSE LET joined == TrimSpace(cp.currentLine \o line)
             cp1    == [cp EXCEPT !.currentLine = <<>>]
         IN  IF Len(joined) = 0
             THEN [cp |-> cp1, err |-> Nil, returned |-> returned]
             ELSE LET r == IF joined[1] = "["
                           THEN parseSectionHeader(cp1, joined)
                           ELSE parseProperty(cp1, joined)
                  IN  [cp |-> [r.cp EXCEPT !.err = r.err], err |-> r.err,
                       returned |-> IF joined[1] = "[" THEN returned
                                    ELSE r.returned]

\* parseLine skipping a blank physical line together with what is pending
parseLineSkipsBlank(cp, line) ==
    IF cp.err # Nil
    THEN [cp |-> cp, err |-> cp.err, returned |-> returned]
    ELSE IF Len(line) > 0 /\ line[1] \in CommentChars
    THEN IF cp.currentLine # <<>>
         THEN LET e == Errorf("ContinuationIntoComment", cp.numLines)
              IN  [cp |-> [cp EXCEPT !.err = e], err |-> e, returned |-> returned]
         ELSE [cp |-> cp, err |-> Nil, returned |-> returned]
    ELSE IF Len(line) > 0 /\ line[Len(line)] = "\\"
    THEN [cp |-> [cp EXCEPT !.currentLine = @ \o SubSeq(line, 1, Len(line) - 1)],
          err |-> Nil, returned |-> returned]
    ELSE LET joined == IF TrimSpace(line) = <<>> THEN <<>>
                       ELSE TrimSpace(cp.currentLine \o line)
             cp1    == [cp EXCEPT !.currentLine = <<>>]
         IN  IF Len(joined) = 0
             THEN [cp |-> cp1, err |-> Nil, returned |-> returned]
             ELSE LET r == IF joined[1] = "["
                           THEN parseSectionHeader(cp1, joined)
                           ELSE parseProperty(cp1, joined)
                  IN  [cp |-> [r.cp EXCEPT !.err = r.err], err |-> r.err,
                       returned |-> IF joined[1] = "[" THEN returned
                                    ELSE r.returned]

\* parseLine clearing the pending buffer only when the joined line is accepted
parseLineClearsLate(cp, line) ==
    IF cp.err # Nil
    THEN [cp |-> cp, err |-> cp.err, returned |-> returned]
    ELSE IF Len(line) > 0 /\ line[1] \in CommentChars
    THEN IF cp.currentLine # <<>>
         THEN LET e == Errorf("ContinuationIntoComment", cp.numLines)
              IN  [cp |-> [cp EXCEPT !.err = e], err |-> e, returned |-> returned]
         ELSE [cp |-> cp, err |-> Nil, returned |-> returned]
    ELSE IF Len(line) > 0 /\ line[Len(line)] = "\\"
    THEN [cp |-> [cp EXCEPT !.currentLine = @ \o SubSeq(line, 1, Len(line) - 1)],
          err |-> Nil, returned |-> returned]
    ELSE LET joined == TrimSpace(cp.currentLine \o line)
             cp1    == [cp EXCEPT !.currentLine = <<>>]
         IN  IF Len(joined) = 0
             THEN [cp |-> cp1, err |-> Nil, returned |-> returned]
             ELSE LET r == IF joined[1] = "["
                           THEN parseSectionHeader(cp, joined)
                           ELSE parseProperty(cp, joined)
                  IN  [cp |-> [r.cp EXCEPT !.err = r.err,
                                           !.currentLine =
                                               IF r.err = Nil THEN <<>> ELSE @],
                       err |-> r.err,
                       returned |-> IF joined[1] = "[" THEN returned
                                    ELSE r.returned]

\* RawConfigParser.parseLine; yields the parser, the returned error and the
\* RawConfig handed out earlier (which only a write through a reference into
\* it changes)
parseLine(cp, line) ==
    IF cp.err # Nil
    THEN [cp |-> cp, err |-> cp.err, returned |-> returned]
    ELSE IF Len(line) > 0 /\ line[1] \in CommentChars
    THEN IF cp.currentLine # <<>>
         THEN LET e == Errorf("ContinuationIntoComment", cp.numLines)
              IN  [cp |-> [cp EXCEPT !.err = e], err |-> e, returned |-> returned]
         ELSE [cp |-> cp, err |-> Nil, returned |-> returned]
    ELSE IF Len(line) > 0 /\ line[Len(line)] = "\\"
    THEN [cp |-> [cp EXCEPT !.currentLine = @ \o SubSeq(line, 1, Len(line) - 1)],
          err |-> Nil, returned |-> returned]
    ELSE LET joined == TrimSpace(cp.currentLine \o line)
             cp1    == [cp EXCEPT !.currentLine = <<>>]
         IN  IF Len(joined) = 0
             THEN [cp |-> cp1, err |-> Nil, returned |-> returned]
             ELSE LET r == IF joined[1] = "["
                           THEN parseSectionHeader(cp1, joined)
                           ELSE parseProperty(cp1, joined)
                  IN  [cp |-> [r.cp EXCEPT !.err = r.err], err |-> r.err,
                       returned |-> IF joined[1] = "[" THEN returned
                                    ELSE r.returned]

(***************************************************************************)
(* The physical lines the scanner may yield: every body as it is, some     *)
(* bodies indented by a blank, some followed by a continuation marker.     *)
(***************************************************************************)
Bodies ==
    { <<>>,
      <<";">>,
      <<"#", "k", "=", "v">>,
      <<"[", "a", "]">>,
      <<"[", "b", "]">>,
      <<"[", "]">>,
      <<"[", "a">>,
      <<"[", "a", "]", "x">>,
      <<"k", "=", "v">>,
      <<"k", "=">>,
      <<"k", " ", "=", "v">>,
      <<"=", "v">>,
      <<"k">> }

ContinuedBodies ==
    { <<>>, <<" ">>, <<";">>, <<"k", "=">>, <<"k", "=", "v">> }

IndentedBodies ==
    { <<>>,
      <<";">>,
      <<"[", "a", "]">>,
      <<"k", "=", "v">>,
      <<"k", " ", "=", "v">>,
      <<"=", "v">> }

Lines ==
    Bodies
    \cup { <<" ">> \o body : body \in IndentedBodies }
    \cup { body \o <<"\\">> : body \in ContinuedBodies }

(***************************************************************************)
(* State.                                                                  *)
(*   cp        the RawConfigParser                                         *)
(*   returned  (declared above) the RawConfig handed to the caller         *)
(*   pc        "idle" between calls, "scanning" inside the loop of Parse   *)
(*   ret       what the last completed call returned                       *)
(* and, recorded about the calls made:                                     *)
(*   prev      <<l>> when l is the last line the scanner yielded in the    *)
(*             current (or last) Parse call, <<>> when it yielded none     *)
(*   failed    some Parse/ParseFile call since creation or the last Finish *)
(*             returned a non-nil error                                    *)
(*   passes    Finish calls made                                           *)
(*   total     physical lines scanned since creation                       *)
(*   fed       physical lines scanned since creation or the last Finish    *)
(*   skipped   lines of its stream that the last call returned without     *)
(*             reading (0, or 1 for one or more)                           *)
(*   recorded  the first error stored in the error slot since creation or  *)
(*             the last Finish, Nil when none was                          *)
(*   group     the physical lines ending in the continuation marker that   *)
(*             were scanned since the last line without one                *)
(***************************************************************************)
VARIABLES cp, pc, ret, prev, failed, passes, total, fed, skipped,
          recorded, group

(***************************************************************************)
(* State of a call of DecodeOptionSet.Decode.                              *)
(*   section   the RawSection decoded                                      *)
(*   dos       the DecodeOptionSet: for each name of the table the Kind of *)
(*             the option and the values its Parse routine rejects         *)
(*   dpc       "off" when no call is modelled, "ready" before the call,    *)
(*             "range" at the head of the loop over the properties,        *)
(*             "values" inside the loop over the values, "done" after it   *)
(*   todo      the properties the range loop has still to visit            *)
(*   property  the property being decoded                                  *)
(*   idx       the index of its next value                                 *)
(*   dest      the calls of the Parse routines made on the destination, as *)
(*             pairs <<property, value>>                                   *)
(*   derr      the error Decode returned                                   *)
(***************************************************************************)
VARIABLES section, dos, dpc, todo, property, idx, dest, derr

dvars == <<section, dos, dpc, todo, property, idx, dest, derr>>

pvars == <<cp, returned, pc, ret, prev, failed, passes, total, fed, skipped,
           recorded, group>>

vars == <<pvars, dvars>>

NoRet == [op |-> "none", err |-> Nil, config |-> NilConfig]

\* the parser after NewRawConfigParser(), no call made
InitParser ==
    /\ cp = NewRawConfigParser
    /\ returned = NilConfig
    /\ pc = "idle"
    /\ ret = NoRet
    /\ prev = <<>>
    /\ failed = FALSE
    /\ passes = 0
    /\ total = 0
    /\ fed = 0
    /\ skipped = 0
    /\ recorded = Nil
    /\ group = <<>>

Init ==
    /\ InitParser
    /\ section = EmptySection
    /\ dos = EmptySection
    /\ dpc = "off"
    /\ todo = {}
    /\ property = <<>>
    /\ idx = 0
    /\ dest = <<>>
    /\ derr = Nil

\* a call returns err (Parse and ParseFile return only an error)
Return(op, e) ==
    /\ ret' = [op |-> op, err |-> e, config |-> NilConfig]
    /\ failed' = (failed \/ e # Nil)
    /\ pc' = "idle"

\* Parse starting afresh: a stored error is dropped instead of returned
ParseClearsError ==
    /\ pc = "idle"
    /\ pc' = "scanning"
    /\ cp' = [cp EXCEPT !.err = Nil]
    /\ prev' = <<>>
    /\ ret' = NoRet
    /\ skipped' = 0
    /\ UNCHANGED <<returned, failed, passes, total, fed, recorded, group>>
    /\ UNCHANGED dvars

\* Parse counting the lines of each stream from 1
ParsePerCallCount ==
    /\ pc = "idle"
    /\ IF cp.err # Nil
       THEN /\ Return("Parse", cp.err)
            /\ skipped' \in {0, 1}
            /\ UNCHANGED <<cp, prev>>
       ELSE /\ pc' = "scanning"
            /\ cp' = [cp EXCEPT !.numLines = 0]
            /\ prev' = <<>>
            /\ ret' = NoRet
            /\ skipped' = 0
            /\ UNCHANGED failed
    /\ UNCHANGED <<returned, passes, total, fed, recorded, group>>
    /\ UNCHANGED dvars

\* Parse starting every stream with an empty pending buffer
ParseFreshBuffer ==
    /\ pc = "idle"
    /\ IF cp.err # Nil
       THEN /\ Return("Parse", cp.err)
            /\ skipped' \in {0, 1}
            /\ UNCHANGED <<cp, prev>>
       ELSE /\ pc' = "scanning"
            /\ cp' = [cp EXCEPT !.currentLine = <<>>]
            /\ prev' = <<>>
            /\ ret' = NoRet
            /\ skipped' = 0
            /\ UNCHANGED failed
    /\ UNCHANGED <<returned, passes, total, fed, recorded, group>>
    /\ UNCHANGED dvars

\* RawConfigParser.Parse, entry: the stored error, whatever the stream holds,
\* or the scanner is set up
Parse ==
    /\ pc = "idle"
    /\ IF cp.err # Nil
       THEN /\ Return("Parse", cp.err)
            /\ skipped' \in {0, 1}
            /\ UNCHANGED prev
       ELSE /\ pc' = "scanning"
            /\ prev' = <<>>
            /\ ret' = NoRet
            /\ skipped' = 0
            /\ UNCHANGED failed
    /\ UNCHANGED <<cp, returned, passes, total, fed, recorded, group>>
    /\ UNCHANGED dvars

\* RawConfigParser.ParseFile: the stored error, the error of os.Open, or Parse
ParseFile(opened) ==
    /\ pc = "idle"
    /\ IF cp.err # Nil
       THEN /\ Return("ParseFile", cp.err)
            /\ skipped' \in {0, 1}
            /\ UNCHANGED prev
       ELSE IF ~opened
       THEN /\ Return("ParseFile", Errorf("Open", 0))
            /\ skipped' = 0
            /\ UNCHANGED prev
       ELSE /\ pc' = "scanning"
            /\ prev' = <<>>
            /\ ret' = NoRet
            /\ skipped' = 0
            /\ UNCHANGED failed
    /\ UNCHANGED <<cp, returned, passes, total, fed, recorded, group>>
    /\ UNCHANGED dvars

\* one iteration of the loop of Parse: scanner.Scan() yields line; when
\* parseLine fails, Parse returns whatever the stream still holds
ScanLine(line) ==
    /\ pc = "scanning"
    /\ total < MaxLines
    /\ LET r == parseLine([cp EXCEPT !.numLines = @ + 1], line)
       IN  /\ cp' = r.cp
           /\ returned' = r.returned
           /\ prev' = <<line>>
           /\ recorded' = IF recorded = Nil THEN r.cp.err ELSE recorded
           /\ IF r.err # Nil
              THEN /\ Return("Parse",
                             [kind |-> "ParseLine", line |-> r.cp.numLines,
                              name |-> <<>>, cause |-> r.err])
                   /\ skipped' \in {0, 1}
              ELSE UNCHANGED <<pc, ret, failed, skipped>>
    /\ total' = total + 1
    /\ fed' = fed + 1
    /\ group' = IF line # <<>> /\ line[1] \in CommentChars THEN <<>>
                ELSE IF line # <<>> /\ line[Len(line)] = "\\"
                THEN Append(group, line)
                ELSE <<>>
    /\ UNCHANGED passes
    /\ UNCHANGED dvars

\* scanner.Scan() returns false and scanner.Err() is an error
ScanErr ==
    /\ pc = "scanning"
    /\ Return("Parse", Errorf("Scanner", 0))
    /\ UNCHANGED <<cp, returned, prev, passes, total, fed, skipped, recorded,
                   group>>
    /\ UNCHANGED dvars

\* scanner.Scan() returns false at the end of the stream
ScanEOF ==
    /\ pc = "scanning"
    /\ IF cp.currentLine # <<>>
       THEN Return("Parse", Errorf("ContinuationAtEOF", cp.numLines))
       ELSE Return("Parse", Nil)
    /\ UNCHANGED <<cp, returned, prev, passes, total, fed, skipped, recorded,
                   group>>
    /\ UNCHANGED dvars

\* what every Finish does to the record of the calls
FinishRecord ==
    /\ prev' = <<>>
    /\ failed' = FALSE
    /\ passes' = passes + 1
    /\ fed' = 0
    /\ skipped' = 0
    /\ recorded' = Nil
    /\ group' = <<>>
    /\ UNCHANGED <<pc, total>>
    /\ UNCHANGED dvars

\* Finish reading the error only after the parser is reset
FinishLateRead ==
    /\ pc = "idle"
    /\ passes < MaxPasses
    /\ ret' = [op |-> "Finish", err |-> NewRawConfigParser.err,
               config |-> NewRawConfigParser.config]
    /\ returned' = NewRawConfigParser.config
    /\ cp' = NewRawConfigParser
    /\ FinishRecord

\* Finish resetting the document, the current section and the error, but not
\* the pending buffer and the line count
FinishKeepsBuffer ==
    /\ pc = "idle"
    /\ passes < MaxPasses
    /\ LET retConfig == cp.config
           retError  == cp.err
       IN  /\ ret' = IF retError # Nil
                     THEN [op |-> "Finish", err |-> retError, config |-> NilConfig]
                     ELSE [op |-> "Finish", err |-> Nil, config |-> retConfig]
           /\ returned' = IF retError # Nil THEN returned ELSE retConfig
    /\ cp' = [NewRawConfigParser EXCEPT !.currentLine = cp.currentLine,
                                        !.numLines = cp.numLines]
    /\ FinishRecord

\* Finish resetting the document, but leaving currentSection pointing into the
\* document it hands out
FinishKeepsSection ==
    /\ pc = "idle"
    /\ passes < MaxPasses
    /\ LET retConfig == cp.config
           retError  == cp.err
       IN  /\ ret' = IF retError # Nil
                     THEN [op |-> "Finish", err |-> retError, config |-> NilConfig]
                     ELSE [op |-> "Finish", err |-> Nil, config |-> retConfig]
           /\ returned' = IF retError # Nil THEN returned ELSE retConfig
    /\ cp' = [NewRawConfigParser EXCEPT
                !.currentSection = [cp.currentSection EXCEPT !.doc = "returned"]]
    /\ FinishRecord

\* RawConfigParser.Finish: the document under construction is handed out (or
\* dropped, on an error) and the parser is replaced by a new one
Finish ==
    /\ pc = "idle"
    /\ passes < MaxPasses
    /\ LET retConfig == cp.config
           retError  == cp.err
       IN  /\ ret' = IF retError # Nil
                     THEN [op |-> "Finish", err |-> retError, config |-> NilConfig]
                     ELSE [op |-> "Finish", err |-> Nil, config |-> retConfig]
           /\ returned' = IF retError # Nil THEN returned ELSE retConfig
    /\ cp' = NewRawConfigParser
    /\ FinishRecord

Next ==
    \/ Parse
    \/ \E opened \in BOOLEAN : ParseFile(opened)
    \/ \E line \in Lines : ScanLine(line)
    \/ ScanErr
    \/ ScanEOF
    \/ Finish

Spec == Init /\ [][Next]_vars

(***************************************************************************)
(* DecodeOptionSet.Decode.  The loop over section.Properties() visits the  *)
(* properties in the unspecified order of a map range; the loop over the   *)
(* values of a property calls the Parse routine of its option once per     *)
(* value.  A Parse routine is known by the values it returns an error for. *)
(***************************************************************************)
MaxValues == 2

DecodeNames == {<<"k">>, <<"j">>}

DecodeValues == {<<"1">>, <<"x">>}

\* the sections addProperty builds over these names: every property that is
\* present has at least one value
DecodeSections ==
    UNION {[S -> UNION {[1..n -> DecodeValues] : n \in 1..MaxValues}] :
             S \in SUBSET DecodeNames}

DecodeOption == [Kind : {"UniqueOption", "MultiOption"},
                 Rejects : {{}, {<<"x">>}}]

DecodeOptionSets == UNION {[S -> DecodeOption] : S \in SUBSET DecodeNames}

\* fmt.Errorf("... %s ...", strconv.Quote(property))
DecodeErrorf(kind, p) == [kind |-> kind, line |-> 0, name |-> p]

InitDecode ==
    /\ InitParser
    /\ section \in DecodeSections
    /\ dos \in DecodeOptionSets
    /\ dpc = "ready"
    /\ todo = {}
    /\ property = <<>>
    /\ idx = 0
    /\ dest = <<>>
    /\ derr = Nil

\* Decode returns e
DecodeReturn(e) ==
    /\ derr' = e
    /\ dpc' = "done"

\* Decode is called: section.Properties() is evaluated for the range loop
Decode ==
    /\ dpc = "ready"
    /\ dpc' = "range"
    /\ todo' = Properties(section)
    /\ UNCHANGED <<section, dos, property, idx, dest, derr>>
    /\ UNCHANGED pvars

\* DecodeProperty without the test of the Kind of the option
DecodePropertyNoUnique(p) ==
    /\ dpc = "range"
    /\ p \in todo
    /\ todo' = todo \ {p}
    /\ property' = p
    /\ IF p \notin DOMAIN dos
       THEN /\ DecodeReturn(DecodeErrorf("UnexpectedProperty", p))
            /\ UNCHANGED idx
       ELSE /\ idx' = 1
            /\ dpc' = "values"
            /\ UNCHANGED derr
    /\ UNCHANGED <<section, dos, dest>>
    /\ UNCHANGED pvars

\* one iteration of the range loop, up to the loop over the values: the
\* option is looked up and a UniqueOption is tested for a single value
DecodeProperty(p) ==
    /\ dpc = "range"
    /\ p \in todo
    /\ todo' = todo \ {p}
    /\ property' = p
    /\ IF p \notin DOMAIN dos
       THEN /\ DecodeReturn(DecodeErrorf("UnexpectedProperty", p))
            /\ UNCHANGED idx
       ELSE IF /\ dos[p].Kind = "UniqueOption"
               /\ Len(GetPropertyValues(section, p)) # 1
       THEN /\ DecodeReturn(DecodeErrorf("CannotBeRepeated", p))
            /\ UNCHANGED idx
       ELSE /\ idx' = 1
            /\ dpc' = "values"
            /\ UNCHANGED derr
    /\ UNCHANGED <<section, dos, dest>>
    /\ UNCHANGED pvars

\* one iteration of the loop over the values: option.Parse(value, dest)
DecodeValue ==
    /\ dpc = "values"
    /\ idx <= Len(GetPropertyValues(section, property))
    /\ LET value == GetPropertyValues(section, property)[idx]
       IN  /\ dest' = Append(dest, <<property, value>>)
           /\ IF value \in dos[property].Rejects
              THEN /\ DecodeReturn(DecodeErrorf("ErrorParsing", property))
                   /\ UNCHANGED idx
              ELSE /\ idx' = idx + 1
                   /\ UNCHANGED <<dpc, derr>>
    /\ UNCHANGED <<section, dos, todo, property>>
    /\ UNCHANGED pvars

\* the values of the property are exhausted: back to the range loop
DecodeValuesEnd ==
    /\ dpc = "values"
    /\ idx > Len(GetPropertyValues(section, property))
    /\ dpc' = "range"
    /\ UNCHANGED <<section, dos, todo, property, idx, dest, derr>>
    /\ UNCHANGED pvars

\* the properties are exhausted: return nil
DecodeEnd ==
    /\ dpc = "range"
    /\ todo = {}
    /\ DecodeReturn(Nil)
    /\ UNCHANGED <<section, dos, todo, property, idx, dest>>
    /\ UNCHANGED pvars

NextDecode ==
    \/ Decode
    \/ \E p \in DecodeNames : DecodeProperty(p)
    \/ DecodeValue
    \/ DecodeValuesEnd
    \/ DecodeEnd

SpecDecode == InitDecode /\ [][NextDecode]_vars

(***************************************************************************)
(* Vocabulary of the properties.                                           *)
(***************************************************************************)
\* the step is one iteration of the loop of Parse; the line is prev'[1]
ScanStep == cp'.numLines = cp.numLines + 1

\* the step is a call of Finish
FinishStep == passes' = passes + 1

\* the step ends a call of Parse
ParseReturns == pc = "scanning" /\ pc' = "idle"

\* the line starts with ';' or '#'
StartsComment(l) == l # <<>> /\ l[1] \in CommentChars

\* the first non-whitespace character of the line is ';' or '#'
IsCommentLine(l) == StartsComment(TrimLeft(l))

\* the line ends in the continuation marker
EndsInMarker(l) == l # <<>> /\ l[Len(l)] = "\\"

\* the logical line that the physical line l completes
Logical(l) == TrimSpace(cp.currentLine \o l)

\* l completes a logical line, which is handed to the record parser
Completes(l) == ~StartsComment(l) /\ ~EndsInMarker(l)

\* the logical line is the header of the section called n
IsHeaderOf(logical, n) ==
    Index(n, "]") = 0 /\ logical = <<"[">> \o n \o <<"]">>

\* the text between the brackets of a header line
HeaderName(logical) == SubSeq(logical, 2, Len(logical) - 1)

NoDuplicates(seq) ==
    \A i, j \in 1..Len(seq) : i # j => seq[i] # seq[j]

\* the section of c that a header-less or most recent header makes current
LastDeclared(c) ==
    IF Sections(c) = <<>> THEN GlobalRef
    ELSE SectionRef(Sections(c)[Len(Sections(c))])

\* the logical line is a property line with a non-empty key
IsProperty(logical) ==
    logical # <<>> /\ logical[1] # "[" /\ Index(logical, "=") > 1

KeyOf(logical) == TrimSpace(SubSeq(logical, 1, Index(logical, "=") - 1))

ValueOf(logical) ==
    TrimSpace(SubSeq(logical, Index(logical, "=") + 1, Len(logical)))

(***************************************************************************)
(* C1: whenever a Parse or ParseFile call made since the creation of the   *)
(* parser or its last Finish returned a non-nil error, the next Finish     *)
(* returns a non-nil error and no document.                                *)
(***************************************************************************)
C1_FinishReportsEveryParseError ==
    [][(FinishStep /\ failed) => (ret'.err # Nil /\ ret'.config = NilConfig)]_vars

(***************************************************************************)
(* C2: Finish called while the pending continuation buffer is non-empty    *)
(* and the error slot is empty returns an error and no document.           *)
(***************************************************************************)
C2_FinishRejectsPendingContinuation ==
    [][(FinishStep /\ cp.currentLine # <<>> /\ cp.err = Nil)
         => (ret'.err # Nil /\ ret'.config = NilConfig)]_vars

(***************************************************************************)
(* C3: the recorded error is sticky: once the error slot is set, no step   *)
(* other than Finish changes it, and Finish returns exactly that error     *)
(* and no document.                                                        *)
(***************************************************************************)
C3_ErrorIsSticky ==
    [][cp.err # Nil =>
         IF FinishStep
         THEN ret'.err = cp.err /\ ret'.config = NilConfig
         ELSE cp'.err = cp.err]_vars

\* a later ParseFile call has returned the recorded error, which is still set
C3_Witness ==
    /\ cp.err # Nil
    /\ cp.err.kind \in {"DuplicateSection", "InvalidProperty", "NoHeaderEnd",
                        "TrailingCharacters", "ContinuationIntoComment"}
    /\ ret.op = "ParseFile"
    /\ ret.err = cp.err

(***************************************************************************)
(* C4: a physical line that ends in the continuation marker and is not a   *)
(* comment line, immediately followed by a physical line starting with ';' *)
(* or '#', makes Parse return an error and sets the error slot, whatever   *)
(* text precedes the marker.                                               *)
(***************************************************************************)
C4_ContinuationIntoCommentRejected ==
    [][(/\ ScanStep
        /\ prev # <<>>
        /\ EndsInMarker(prev[1])
        /\ ~IsCommentLine(prev[1])
        /\ StartsComment(prev'[1]))
         => (cp'.err # Nil /\ pc' = "idle" /\ ret'.err # Nil)]_vars

(***************************************************************************)
(* C5: Parse on a stream whose last physical line ends in the continuation *)
(* marker and is not a comment line returns a non-nil error, whatever text *)
(* precedes the marker.                                                    *)
(***************************************************************************)
C5_ContinuationAtEndOfStreamRejected ==
    [][(/\ ParseReturns
        /\ prev' # <<>>
        /\ EndsInMarker(prev'[1])
        /\ ~IsCommentLine(prev'[1]))
         => ret'.err # Nil]_vars

(***************************************************************************)
(* C6: a physical line whose first non-whitespace character is ';' or '#', *)
(* processed while no continuation is pending, produces no error and       *)
(* leaves the document, the current section and the pending buffer         *)
(* unchanged.                                                              *)
(***************************************************************************)
C6_CommentLineIsDiscarded ==
    [][(ScanStep /\ IsCommentLine(prev'[1]) /\ cp.currentLine = <<>>)
         => (/\ cp'.err = Nil
             /\ cp'.config = cp.config
             /\ cp'.currentSection = cp.currentSection
             /\ cp'.currentLine = cp.currentLine)]_vars

(***************************************************************************)
(* C7: no section of the document under construction, and no section of a  *)
(* document returned by Finish, has the empty string as its name.          *)
(***************************************************************************)
C7_NoEmptySectionName ==
    /\ \A n \in DOMAIN cp.config.sections : n # <<>>
    /\ \A i \in 1..Len(cp.config.sectionNames) : cp.config.sectionNames[i] # <<>>
    /\ ret.config # NilConfig =>
          /\ \A n \in DOMAIN ret.config.sections : n # <<>>
          /\ \A i \in 1..Len(ret.config.sectionNames) :
                ret.config.sectionNames[i] # <<>>

(***************************************************************************)
(* C8: a header whose section name is already declared in the pass records *)
(* a duplicate-section error, makes Parse return an error, and leaves the  *)
(* sections, the section-name order, the stored properties and the current *)
(* section unchanged.                                                      *)
(***************************************************************************)
C8_DuplicateSectionRejected ==
    [][(/\ ScanStep
        /\ Completes(prev'[1])
        /\ \E n \in DOMAIN cp.config.sections :
              IsHeaderOf(Logical(prev'[1]), n))
         => (/\ cp'.err.kind = "DuplicateSection"
             /\ ret'.err # Nil
             /\ cp'.config = cp.config
             /\ cp'.currentSection = cp.currentSection)]_vars

\* a second header of a section that holds properties has been rejected
C8_Witness ==
    /\ cp.err.kind = "DuplicateSection"
    /\ cp.err.name \in DOMAIN cp.config.sections
    /\ cp.config.sections[cp.err.name] # EmptySection

(***************************************************************************)
(* C9: Sections() lists the declared names in first-declaration order: it  *)
(* has no name twice, holds exactly the names for which Section(name) is   *)
(* present, changes only by the name of a newly accepted header appended   *)
(* at its end, and is the order of the document that Finish returns.       *)
(***************************************************************************)
C9_NamesMatch(c) ==
    /\ NoDuplicates(Sections(c))
    /\ \A i \in 1..Len(Sections(c)) : HasSection(c, Sections(c)[i])
    /\ \A n \in DOMAIN c.sections : \E i \in 1..Len(Sections(c)) : Sections(c)[i] = n

C9_SectionsInDeclarationOrder ==
    /\ [](C9_NamesMatch(cp.config)
          /\ (ret.config # NilConfig => C9_NamesMatch(ret.config)))
    /\ [][IF FinishStep
          THEN ret'.config # NilConfig => Sections(ret'.config) = Sections(cp.config)
          ELSE \/ Sections(cp'.config) = Sections(cp.config)
               \/ /\ ScanStep
                  /\ Completes(prev'[1])
                  /\ IsHeaderOf(Logical(prev'[1]), HeaderName(Logical(prev'[1])))
                  /\ cp'.err = Nil
                  /\ Sections(cp'.config) =
                        Append(Sections(cp.config), HeaderName(Logical(prev'[1])))]_vars

\* two sections declared as b then a are listed as b then a
C9_Witness ==
    /\ Sections(cp.config) = << <<"b">>, <<"a">> >>
    /\ HasSection(cp.config, <<"a">>)
    /\ HasSection(cp.config, <<"b">>)

(***************************************************************************)
(* C10: an accepted property line appends its value at the end of the      *)
(* value list of its key in the current section (the global section if no  *)
(* header was accepted in the pass, else the section of the most recently  *)
(* accepted header) and changes no other key and no other section; a       *)
(* single key=value input gives a global section with exactly that one     *)
(* value and no declared sections.                                         *)
(***************************************************************************)
C10_AppendedTo(s, t, p, v) ==
    /\ DOMAIN t = DOMAIN s \cup {p}
    /\ t[p] = Append(GetPropertyValues(s, p), v)
    /\ \A q \in DOMAIN s \ {p} : t[q] = s[q]

C10_PropertyAppendedToCurrentSection ==
    /\ [][(/\ ScanStep
           /\ Completes(prev'[1])
           /\ IsProperty(Logical(prev'[1])))
            => LET p   == KeyOf(Logical(prev'[1]))
                   v   == ValueOf(Logical(prev'[1]))
                   c   == cp.config
                   d   == cp'.config
                   tgt == LastDeclared(c)
               IN  /\ cp'.err = Nil
                   /\ Sections(d) = Sections(c)
                   /\ DOMAIN d.sections = DOMAIN c.sections
                   /\ IF tgt.global
                      THEN C10_AppendedTo(c.GlobalSection, d.GlobalSection, p, v)
                      ELSE d.GlobalSection = c.GlobalSection
                   /\ \A n \in DOMAIN c.sections :
                        IF tgt = SectionRef(n)
                        THEN C10_AppendedTo(c.sections[n], d.sections[n], p, v)
                        ELSE d.sections[n] = c.sections[n]]_vars
    /\ [][(/\ FinishStep
           /\ cp.numLines = 1
           /\ prev # <<>>
           /\ Completes(prev[1])
           /\ IsProperty(TrimSpace(prev[1])))
            => (/\ ret'.err = Nil
                /\ ret'.config # NilConfig
                /\ Sections(ret'.config) = <<>>
                /\ DOMAIN ret'.config.sections = {}
                /\ DOMAIN ret'.config.GlobalSection = {KeyOf(TrimSpace(prev[1]))}
                /\ GetPropertyValues(ret'.config.GlobalSection,
                                     KeyOf(TrimSpace(prev[1])))
                     = <<ValueOf(TrimSpace(prev[1]))>>)]_vars

\* a repeated key of a declared section holds its two values in input order
C10_Witness ==
    /\ cp.currentSection = SectionRef(<<"a">>)
    /\ HasSection(cp.config, <<"a">>)
    /\ GetPropertyValues(cp.config.sections[<<"a">>], <<"k">>) = << <<"v">>, <<>> >>
    /\ cp.config.GlobalSection = EmptySection

(***************************************************************************)
(* C11: every property name stored in the global or a declared section is  *)
(* non-empty and has no leading or trailing whitespace, every stored value *)
(* has no leading or trailing whitespace, and a property line whose key is *)
(* empty after trimming stores nothing and records an error.               *)
(***************************************************************************)
C11_Trimmed(s) ==
    \A p \in DOMAIN s :
        /\ p # <<>>
        /\ TrimSpace(p) = p
        /\ \A i \in 1..Len(s[p]) : TrimSpace(s[p][i]) = s[p][i]

C11_StoredNamesAndValuesTrimmed ==
    /\ [](/\ C11_Trimmed(cp.config.GlobalSection)
          /\ \A n \in DOMAIN cp.config.sections :
                C11_Trimmed(cp.config.sections[n]))
    /\ [][(/\ ScanStep
           /\ Completes(prev'[1])
           /\ Logical(prev'[1]) # <<>>
           /\ Logical(prev'[1])[1] # "["
           /\ Index(Logical(prev'[1]), "=") > 0
           /\ KeyOf(Logical(prev'[1])) = <<>>)
            => (cp'.err # Nil /\ cp'.config = cp.config)]_vars

\* an indented property line with a blank before '=' is stored under the
\* trimmed key
C11_Witness ==
    /\ prev = << <<" ", "k", " ", "=", "v">> >>
    /\ cp.err = Nil
    /\ cp.config.GlobalSection = [p \in {<<"k">>} |-> << <<"v">> >>]

(***************************************************************************)
(* C12: Finish always resets the parser, whether it returns a document or  *)
(* an error: right after any Finish the parser equals a freshly created    *)
(* one (empty document, current section the global section, empty pending  *)
(* buffer, line count 0, empty error slot), and a Finish of a parser in    *)
(* that state returns an empty document and no error.                      *)
(***************************************************************************)
C12_FinishResetsParser ==
    /\ [][FinishStep => cp' = NewRawConfigParser]_vars
    /\ [][(FinishStep /\ cp = NewRawConfigParser)
            => (ret'.err = Nil /\ ret'.config = NewRawConfig)]_vars

\* Finish has returned an error for an input that also left a continuation
\* pending, and the parser is as new
C12_Witness ==
    /\ ret.op = "Finish"
    /\ ret.err.kind = "ContinuationIntoComment"
    /\ ret.err.line > 1
    /\ cp = NewRawConfigParser

(***************************************************************************)
(* C13: a document returned by Finish is never changed afterwards by the   *)
(* parser: it is the document as built, and no later Parse, ParseFile or   *)
(* Finish step alters it (a later successful Finish hands out another      *)
(* document, which is then the one followed).                              *)
(***************************************************************************)
C13_ReturnedDocumentUnchanged ==
    /\ [][(FinishStep /\ cp.err = Nil)
            => (ret'.config = cp.config /\ returned' = cp.config)]_vars
    /\ [][returned # NilConfig
            => (returned' = returned \/ (FinishStep /\ cp.err = Nil))]_vars

\* the caller holds a document with one property while the parser has
\* stored a property and declared a section in its next document
C13_Witness ==
    /\ returned # NilConfig
    /\ returned.GlobalSection = [p \in {<<"k">>} |-> << <<"v">> >>]
    /\ Sections(returned) = <<>>
    /\ cp.config.GlobalSection = [p \in {<<"k">>} |-> << <<>> >>]
    /\ Sections(cp.config) = << <<"a">> >>

(***************************************************************************)
(* C14: once an error has been recorded in a pass, no step before Finish   *)
(* adds a section or a property value, changes the current section or      *)
(* changes the section-name order.                                         *)
(***************************************************************************)
C14_PoisonedPassIsFrozen ==
    [][(recorded # Nil /\ ~FinishStep)
         => (cp'.config = cp.config /\ cp'.currentSection = cp.currentSection)]_vars

\* after an error on the third line, in a section holding a property, a
\* later Parse call has returned
C14_Witness ==
    /\ recorded # Nil
    /\ recorded.line = 3
    /\ cp.currentSection = SectionRef(<<"a">>)
    /\ cp.config.sections[<<"a">>] # EmptySection
    /\ ret.op = "Parse"
    /\ ret.err = recorded

(***************************************************************************)
(* C15: once the error slot is set, every further physical     *)
(* line offered before Finish (the rest of the current stream, the lines   *)
(* of a later Parse call) is still counted, and the call reports the       *)
(* stored error.                                                           *)
(***************************************************************************)
C15_LineCountingContinues ==
    [][(cp'.err # Nil /\ ~FinishStep)
         => (/\ skipped' = 0
             /\ cp.err # Nil => ret'.err = cp.err)]_vars

(***************************************************************************)
(* C16: the line number named in a parse error is the number of physical   *)
(* lines fed to the parser since its creation or last Finish, the faulting *)
(* line and the lines of earlier Parse calls of the pass included.         *)
(***************************************************************************)
C16_ErrorNamesLineFed ==
    /\ cp.err # Nil => (cp.err.line = fed /\ fed >= 1)
    /\ ret.err.kind \in {"ParseLine", "ContinuationAtEOF"} => ret.err.line = fed

\* an error of the third line fed, reported by the Parse call that read it
C16_Witness ==
    /\ cp.err.kind = "DuplicateSection"
    /\ cp.err.line = 3
    /\ fed = 3
    /\ ret.err.kind = "ParseLine"
    /\ ret.err.line = 3

(***************************************************************************)
(* C17: a logical line that is neither blank nor a comment and that has    *)
(* no '=' and no leading '[', or starts with '[' and has no ']', or has    *)
(* text after its first ']', or has nothing before its first '=', makes    *)
(* Parse return an error, sets the error slot and adds nothing to the      *)
(* document.                                                               *)
(***************************************************************************)
C17_Malformed(logical) ==
    /\ logical # <<>>
    /\ ~StartsComment(logical)
    /\ IF logical[1] = "["
       THEN Index(logical, "]") = 0 \/ Index(logical, "]") < Len(logical)
       ELSE Index(logical, "=") = 0 \/ Index(logical, "=") = 1

C17_MalformedLineRejected ==
    [][(ScanStep /\ Completes(prev'[1]) /\ C17_Malformed(Logical(prev'[1])))
         => (/\ ParseReturns
             /\ ret'.err.kind = "ParseLine"
             /\ ret'.err.line = cp'.numLines
             /\ cp'.err # Nil
             /\ cp'.config = cp.config
             /\ cp'.currentSection = cp.currentSection
             /\ returned' = returned)]_vars

\* the header with text after ']' was rejected on line 3, in a section
\* that holds a property
C17_Witness ==
    /\ prev = << <<"[", "a", "]", "x">> >>
    /\ cp.err.kind = "TrailingCharacters"
    /\ cp.err.line = 3
    /\ ret.err.kind = "ParseLine"
    /\ Sections(cp.config) = << <<"b">> >>
    /\ cp.config.sections[<<"b">>] = [p \in {<<"k">>} |-> << <<"v">> >>]

(***************************************************************************)
(* C18: leading whitespace on a header, property or blank line is          *)
(* ignored: scanning such a line indented leaves the parser, and the error *)
(* returned, exactly as scanning the same line without its indentation     *)
(* would, so that Finish gives the same result for both inputs.            *)
(***************************************************************************)
C18_Indented(l) ==
    /\ l # <<>>
    /\ l[1] \in WhiteSpace
    /\ ~IsCommentLine(l)
    /\ ~EndsInMarker(l)

C18_LeadingWhitespaceIgnored ==
    [][(ScanStep /\ cp.currentLine = <<>> /\ C18_Indented(prev'[1]))
         => LET r == parseLine([cp EXCEPT !.numLines = @ + 1], TrimLeft(prev'[1]))
            IN  /\ cp' = r.cp
                /\ returned' = r.returned
                /\ (r.err = Nil) = (pc' = "scanning")
                /\ r.err # Nil => (ret'.err.kind = "ParseLine"
                                    /\ ret'.err.line = r.err.line)]_vars

\* an indented property line has been stored in the section that an earlier
\* line declared
C18_Witness ==
    /\ prev = << <<" ", "k", "=", "v">> >>
    /\ cp.numLines = 2
    /\ cp.err = Nil
    /\ Sections(cp.config) = << <<"a">> >>
    /\ cp.config.sections[<<"a">>] = [p \in {<<"k">>} |-> << <<"v">> >>]

(***************************************************************************)
(* C19: consecutive non-comment lines ending in the marker, followed by a  *)
(* non-comment line without it, are classified as one logical line: the    *)
(* trimmed concatenation of the lines in order, each marker removed and    *)
(* nothing put between them.  The parser is then as if that one line had   *)
(* been scanned in their place, so the last line is no record of its own.  *)
(***************************************************************************)
RECURSIVE C19_Join(_)
C19_Join(g) ==
    IF g = <<>> THEN <<>>
    ELSE SubSeq(Head(g), 1, Len(Head(g)) - 1) \o C19_Join(Tail(g))

C19_ContinuationJoinsDirectly ==
    /\ [](cp.err = Nil => cp.currentLine = C19_Join(group))
    /\ [][(/\ ScanStep
           /\ group # <<>>
           /\ \A i \in 1..Len(group) : ~IsCommentLine(group[i])
           /\ Completes(prev'[1])
           /\ ~IsCommentLine(prev'[1]))
            => LET logical == TrimSpace(C19_Join(group) \o prev'[1])
                   r == parseLine([cp EXCEPT !.currentLine = <<>>,
                                             !.numLines = @ + 1], logical)
               IN  /\ cp' = r.cp
                   /\ returned' = r.returned
                   /\ (r.err = Nil) = (pc' = "scanning")
                   /\ group' = <<>>]_vars

\* "k=\", "k=\", "k=v" have been stored as the one property k = "k=k=v"
C19_Witness ==
    /\ prev = << <<"k", "=", "v">> >>
    /\ cp.numLines = 3
    /\ cp.err = Nil
    /\ cp.currentLine = <<>>
    /\ cp.config.GlobalSection = [p \in {<<"k">>} |-> << <<"k", "=", "k", "=", "v">> >>]

(***************************************************************************)
(* C20: the line "k=\" followed by a blank line records k with one more    *)
(* value, the empty string, and no error (exactly one value when k had     *)
(* none); and a recorded property always has at least one value, while     *)
(* GetPropertyValues of a property never set is the empty list.            *)
(***************************************************************************)
C20_Current(c, ref) ==
    IF ref.global THEN c.GlobalSection ELSE c.sections[ref.name]

C20_Names == {<<"k">>, <<"v">>, <<"x">>}

C20_SetOrNot(sec) ==
    \A p \in C20_Names :
        IF p \in DOMAIN sec
        THEN Len(GetPropertyValues(sec, p)) >= 1
        ELSE GetPropertyValues(sec, p) = <<>>

C20_BlankContinuationRecordsEmptyValue ==
    /\ [](/\ C20_SetOrNot(cp.config.GlobalSection)
          /\ \A n \in DOMAIN cp.config.sections :
                 C20_SetOrNot(cp.config.sections[n]))
    /\ [][(/\ ScanStep
           /\ group = << <<"k", "=", "\\">> >>
           /\ TrimSpace(prev'[1]) = <<>>)
            => LET before == C20_Current(cp.config, cp.currentSection)
                   after  == C20_Current(cp'.config, cp'.currentSection)
               IN  /\ cp'.err = Nil
                   /\ pc' = "scanning"
                   /\ cp'.currentSection = cp.currentSection
                   /\ after = addProperty(before, <<"k">>, <<>>)
                   /\ GetPropertyValues(after, <<"k">>) =
                        Append(GetPropertyValues(before, <<"k">>), <<>>)
                   /\ before = EmptySection
                        => GetPropertyValues(after, <<"k">>) = << <<>> >>]_vars

\* "k=", then "k=\" and a blank line: the third line, blank, has added the
\* second empty value
C20_Witness ==
    /\ cp.numLines = 3
    /\ prev \in {<< <<>> >>, << <<" ">> >>}
    /\ cp.err = Nil
    /\ cp.config.GlobalSection = [p \in {<<"k">>} |-> << <<>>, <<>> >>]

(***************************************************************************)
(* C21: Decode returns an error whenever the section holds a property      *)
(* without an entry in the table, or a UniqueOption property with more     *)
(* than one value, or a value that the Parse routine of its option         *)
(* rejects; otherwise it returns nil after calling the Parse routine       *)
(* exactly once for every value of every property, the values of each      *)
(* property in their recorded order.                                       *)
(***************************************************************************)
C21_MustFail ==
    \E p \in DOMAIN section :
        \/ p \notin DOMAIN dos
        \/ /\ p \in DOMAIN dos
           /\ \/ dos[p].Kind = "UniqueOption" /\ Len(section[p]) > 1
              \/ \E i \in 1..Len(section[p]) : section[p][i] \in dos[p].Rejects

\* the values that the calls made on the destination passed for p, in order
RECURSIVE C21_CallsFor(_, _)
C21_CallsFor(calls, p) ==
    IF calls = <<>> THEN <<>>
    ELSE IF Head(calls)[1] = p
    THEN <<Head(calls)[2]>> \o C21_CallsFor(Tail(calls), p)
    ELSE C21_CallsFor(Tail(calls), p)

C22_ContinuationLineOnlyBuffers ==
    /\ [][(ScanStep /\ ~IsCommentLine(prev'[1]) /\ EndsInMarker(prev'[1]))
            => (/\ cp' = [cp EXCEPT
                            !.numLines = @ + 1,
                            !.currentLine =
                                @ \o SubSeq(prev'[1], 1, Len(prev'[1]) - 1)]
                /\ returned' = returned
                /\ pc' = "scanning")]_vars
    /\ [][(ScanStep /\ ~IsCommentLine(prev'[1]) /\ ~EndsInMarker(prev'[1]))
            => cp'.currentLine = <<>>]_vars

\* "[a]", then "k=\" and "k=v\": the two lines are pending, the section
\* declared before them is current and holds nothing
C22_Witness ==
    /\ group = << <<"k", "=", "\\">>, <<"k", "=", "v", "\\">> >>
    /\ cp.currentLine = <<"k", "=", "k", "=", "v">>
    /\ cp.err = Nil
    /\ cp.currentSection = SectionRef(<<"a">>)
    /\ cp.config.sections[<<"a">>] = EmptySection

(***************************************************************************)
(* C23: the parser state depends on the lines fed and not on the Parse     *)
(* calls they were fed in: entering and leaving Parse or ParseFile changes *)
(* nothing of the parser (document, current section, pending buffer, line  *)
(* count, error slot), each scanned line takes the parser to the state     *)
(* that parseLine gives for the state before it and the line alone, and    *)
(* only Finish resets.  Parse on A and then on B hence leaves the parser   *)
(* as one Parse on A followed by B does.                                   *)
(***************************************************************************)
C23_ChunkingIndependent ==
    /\ [][(~ScanStep /\ ~FinishStep) => (cp' = cp /\ returned' = returned)]_vars
    /\ [][ScanStep
            => LET r == parseLine([cp EXCEPT !.numLines = @ + 1], prev'[1])
               IN  cp' = r.cp /\ returned' = r.returned]_vars
    /\ [](pc = "idle" /\ cp.err = Nil /\ passes = 0 => cp.numLines = total)

\* a call that scanned "[a]" and "k=\" has returned and the next call has
\* entered its loop without a line scanned yet: the section, the pending
\* buffer and the line count are those the earlier call left
C23_Witness ==
    /\ pc = "scanning"
    /\ prev = <<>>
    /\ failed
    /\ cp.numLines = 2
    /\ cp.err = Nil
    /\ cp.currentSection = SectionRef(<<"a">>)
    /\ cp.currentLine = <<"k", "=">>

(***************************************************************************)
(* C24: in every reachable state the current section is a section of the   *)
(* document under construction: the global section exactly when no header  *)
(* has been accepted since creation or the last Finish, otherwise the      *)
(* section registered under the last name of the section-name sequence;    *)
(* and a rejected header changes neither it nor the document.              *)
(***************************************************************************)
C24_CurrentSectionIsLastDeclared ==
    /\ [](/\ cp.currentSection.doc = "config"
          /\ cp.currentSection.global = (Sections(cp.config) = <<>>)
          /\ cp.currentSection = LastDeclared(cp.config)
          /\ ~cp.currentSection.global
               => HasSection(cp.config, cp.currentSection.name))
    /\ [][(/\ ScanStep
           /\ Completes(prev'[1])
           /\ Logical(prev'[1]) # <<>>
           /\ Logical(prev'[1])[1] = "["
           /\ cp'.err # Nil)
            => (/\ cp'.currentSection = cp.currentSection
                /\ cp'.config = cp.config)]_vars

\* "[a]", "[b]", then "[a]" again: the duplicate header was rejected and the
\* current section is still b, the last one declared
C24_Witness ==
    /\ prev = << <<"[", "a", "]">> >>
    /\ cp.err.kind = "DuplicateSection"
    /\ cp.numLines = 3
    /\ Sections(cp.config) = << <<"a">>, <<"b">> >>
    /\ cp.currentSection = SectionRef(<<"b">>)

====
